---- MODULE Spec2Model ----
(***************************************************************************)
(* A model of galaxy.py: upload FASTQ reads to a Galaxy server, select an  *)
(* assembler, build its inputs, run it, wait for a FASTA and download it.  *)
(*                                                                         *)
(* Python strings are TLA+ strings (Len, \o and SubSeq work on them).      *)
(* An optional value is a tuple: None is <<>>, the value v is <<v>>.       *)
(***************************************************************************)
EXTENDS Integers, Sequences, FiniteSets, TLC

VARIABLES
    pc,            \* position of the program
    args,          \* parsed command line: fastq1, fastq2, wait_timeout
    now,           \* time.time()
    history,       \* the remote history: sequence of datasets
    collections,   \* the remote history's dataset collections
    calls,         \* remote operations performed so far, in order
    uploaded,      \* main: basenames uploaded
    name_to_dsid,  \* main: basename -> dataset id
    tools,         \* the remote tool catalog (find_tool_by_keywords: tools)
    keywords,      \* find_tool_by_keywords: keywords
    tool_id,       \* main: selected tool (find_tool_by_keywords: result)
    tool_info,     \* main: schema of the selected tool
    read_slots,    \* main: result of find_input_slots_for_reads
    tool_inputs,   \* main: parameter mapping
    loop,          \* frame of the polling loop that is running
    ret            \* value returned (or exception raised) by the last call

vars == <<pc, args, now, history, collections, calls, uploaded, name_to_dsid,
          tools, keywords, tool_id, tool_info, read_slots, tool_inputs, loop, ret>>

-----------------------------------------------------------------------------
(* Python values *)

None == <<>>

Some(v) == <<v>>

\* truth value of an optional string: None and '' are falsy
Truthy(o) == o # None /\ o[1] # ""

\* a or b on optional strings
Or(a, b) == IF Truthy(a) THEN a ELSE b

\* str.lower() on one character
LowerChar(c) ==
    CASE c = "A" -> "a" [] c = "B" -> "b" [] c = "C" -> "c" [] c = "D" -> "d"
      [] c = "E" -> "e" [] c = "F" -> "f" [] c = "G" -> "g" [] c = "H" -> "h"
      [] c = "I" -> "i" [] c = "J" -> "j" [] c = "K" -> "k" [] c = "L" -> "l"
      [] c = "M" -> "m" [] c = "N" -> "n" [] c = "O" -> "o" [] c = "P" -> "p"
      [] c = "Q" -> "q" [] c = "R" -> "r" [] c = "S" -> "s" [] c = "T" -> "t"
      [] c = "U" -> "u" [] c = "V" -> "v" [] c = "W" -> "w" [] c = "X" -> "x"
      [] c = "Y" -> "y" [] c = "Z" -> "z" [] OTHER -> c

\* str.lower(): low[i] is the first i characters of s, lowercased
lower(s) ==
    LET low[i \in 0..Len(s)] ==
            IF i = 0 THEN "" ELSE low[i - 1] \o LowerChar(SubSeq(s, i, i))
    IN  low[Len(s)]

\* k in s, on strings
In(k, s) ==
    LET n == Len(k)
    IN  \E i \in 1..(Len(s) - n + 1) : SubSeq(s, i, i + n - 1) = k

\* s.endswith(k)
endswith(s, k) == Len(k) <= Len(s) /\ SubSeq(s, Len(s) - Len(k) + 1, Len(s)) = k

-----------------------------------------------------------------------------
(* find_input_slots_for_reads *)

\* An input of a tool schema: a record with fields name, id, label, help,
\* type and inputs (the nested input list; empty when the key is absent).
\* A missing or None field is the empty string.

\* name = inp.get('name') or inp.get('id') or ''
InpName(inp) == IF inp.name # "" THEN inp.name ELSE inp.id

\* label = inp.get('label') or inp.get('help') or ''
InpLabel(inp) == IF inp.label # "" THEN inp.label ELSE inp.help

\* combined = lname + ' ' + llabel
Combined(inp) == lower(InpName(inp)) \o " " \o lower(InpLabel(inp))

DataTypes == {"data", "data_collection", "data_input"}

LeftWords == {"left", "read1", "r1", "forward", "paired 1", "paired_end_1"}

RightWords == {"right", "read2", "r2", "reverse", "paired 2", "paired_end_2"}

SingleWords == {"reads", "fastq", "sequence"}

AnyIn(words, s) == \E x \in words : In(x, s)

IsLeft(inp) ==
    LET combined == Combined(inp)
    IN  inp.type \in DataTypes /\ AnyIn(LeftWords, combined)

IsRight(inp) ==
    LET combined == Combined(inp)
    IN  inp.type \in DataTypes /\ ~AnyIn(LeftWords, combined) /\ AnyIn(RightWords, combined)

IsSingle(inp) ==
    LET combined == Combined(inp)
    IN  inp.type \in DataTypes /\ ~AnyIn(LeftWords, combined)
        /\ ~AnyIn(RightWords, combined) /\ AnyIn(SingleWords, combined)

IsExplicitSingle(inp) == In("single_reads", lower(InpName(inp)))

IsExplicitFwd(inp) ==
    LET lname == lower(InpName(inp))
    IN  In("fwd_reads", lname) \/ In("forward_reads", lname)

IsExplicitRev(inp) ==
    LET lname == lower(InpName(inp))
    IN  In("rev_reads", lname) \/ In("reverse_reads", lname)

\* the nonlocal variables of walk_inputs before the walk
NoSlots == [single |-> None, left |-> None, right |-> None,
            explicit_single |-> None, explicit_fwd |-> None, explicit_rev |-> None]

\* VisitInput with a single slot that the last match wins
VisitInput_SingleLastWins(inp, acc) ==
    LET name == InpName(inp)
        lname == lower(name)
        combined == lname \o " " \o lower(InpLabel(inp))
        data == inp.type \in DataTypes
        a1 == IF In("single_reads", lname)
              THEN [acc EXCEPT !.explicit_single = Some(name)] ELSE acc
        a2 == IF (In("fwd_reads", lname) \/ In("forward_reads", lname))
              THEN [a1 EXCEPT !.explicit_fwd = Some(name)] ELSE a1
        a3 == IF (In("rev_reads", lname) \/ In("reverse_reads", lname))
              THEN [a2 EXCEPT !.explicit_rev = Some(name)] ELSE a2
    IN  IF data /\ AnyIn(LeftWords, combined) THEN [a3 EXCEPT !.left = Some(name)]
        ELSE IF data /\ AnyIn(RightWords, combined) THEN [a3 EXCEPT !.right = Some(name)]
        ELSE IF data /\ AnyIn(SingleWords, combined)
             THEN [a3 EXCEPT !.single = Some(name)]
        ELSE a3

\* VisitInput with explicit keys captured on file-accepting inputs only
VisitInput_ExplicitOnData(inp, acc) ==
    LET name == InpName(inp)
        lname == lower(name)
        combined == lname \o " " \o lower(InpLabel(inp))
        data == inp.type \in DataTypes
        a1 == IF data /\ In("single_reads", lname)
              THEN [acc EXCEPT !.explicit_single = Some(name)] ELSE acc
        a2 == IF data /\ (In("fwd_reads", lname) \/ In("forward_reads", lname))
              THEN [a1 EXCEPT !.explicit_fwd = Some(name)] ELSE a1
        a3 == IF data /\ (In("rev_reads", lname) \/ In("reverse_reads", lname))
              THEN [a2 EXCEPT !.explicit_rev = Some(name)] ELSE a2
    IN  IF data /\ AnyIn(LeftWords, combined) THEN [a3 EXCEPT !.left = Some(name)]
        ELSE IF data /\ AnyIn(RightWords, combined) THEN [a3 EXCEPT !.right = Some(name)]
        ELSE IF data /\ AnyIn(SingleWords, combined) /\ a3.single = None
             THEN [a3 EXCEPT !.single = Some(name)]
        ELSE a3

\* the body of the loop of walk_inputs for one input, before the recursion
VisitInput(inp, acc) ==
    LET name == InpName(inp)
        lname == lower(name)
        combined == lname \o " " \o lower(InpLabel(inp))
        data == inp.type \in DataTypes
        a1 == IF In("single_reads", lname)
              THEN [acc EXCEPT !.explicit_single = Some(name)] ELSE acc
        a2 == IF (In("fwd_reads", lname) \/ In("forward_reads", lname))
              THEN [a1 EXCEPT !.explicit_fwd = Some(name)] ELSE a1
        a3 == IF (In("rev_reads", lname) \/ In("reverse_reads", lname))
              THEN [a2 EXCEPT !.explicit_rev = Some(name)] ELSE a2
    IN  IF data /\ AnyIn(LeftWords, combined) THEN [a3 EXCEPT !.left = Some(name)]
        ELSE IF data /\ AnyIn(RightWords, combined) THEN [a3 EXCEPT !.right = Some(name)]
        ELSE IF data /\ AnyIn(SingleWords, combined) /\ a3.single = None
             THEN [a3 EXCEPT !.single = Some(name)]
        ELSE a3

RECURSIVE walk_inputs(_, _)
walk_inputs(inp_list, acc) ==
    IF inp_list = <<>> THEN acc
    ELSE LET inp == Head(inp_list)
         IN  walk_inputs(Tail(inp_list), walk_inputs(inp.inputs, VisitInput(inp, acc)))

\* tool_info is the input list of the tool (tool_info.get('inputs', []))
find_input_slots_for_reads(info) == walk_inputs(info, NoSlots)

-----------------------------------------------------------------------------
(* find_tool_by_keywords *)

\* d[k] = v on a mapping
Put(d, k, v) == [x \in (DOMAIN d) \cup {k} |-> IF x = k THEN v ELSE d[x]]

EmptyMap == [x \in {} |-> None]

\* A Python dict iterates its keys in the order of their first insertion:
\* keys is that order, val the mapping.
EmptyDict == [keys |-> <<>>, val |-> EmptyMap]

DictSet(d, k, v) ==
    [keys |-> IF k \in DOMAIN d.val THEN d.keys ELSE Append(d.keys, k),
     val  |-> Put(d.val, k, v)]

\* for t in tools: tool_map[t.get('id','')] = t.get('name','')
RECURSIVE BuildToolMap(_, _)
BuildToolMap(ts, d) ==
    IF ts = <<>> THEN d
    ELSE BuildToolMap(Tail(ts), DictSet(d, Head(ts).id, Head(ts).name))

\* kw.lower() in tid.lower() or kw.lower() in (name or '').lower()
KeywordMatches(kw, tid, name) == In(lower(kw), lower(tid)) \/ In(lower(kw), lower(name))

\* for tid, name in tool_map.items(): if ... return tid
RECURSIVE ScanToolMap(_, _, _)
ScanToolMap(kw, keys, d) ==
    IF keys = <<>> THEN None
    ELSE IF KeywordMatches(kw, Head(keys), d.val[Head(keys)]) THEN Some(Head(keys))
    ELSE ScanToolMap(kw, Tail(keys), d)

\* for kw in keywords: ...; return None
RECURSIVE ScanKeywords(_, _)
ScanKeywords(kws, d) ==
    IF kws = <<>> THEN None
    ELSE LET r == ScanToolMap(Head(kws), d.keys, d)
         IN  IF r # None THEN r ELSE ScanKeywords(Tail(kws), d)

find_tool_by_keywords(ts, kws) == ScanKeywords(kws, BuildToolMap(ts, EmptyDict))

-----------------------------------------------------------------------------
(* wait_for_history_ready and poll_history_for_dataset_with_ext *)

\* A dataset of the history, as show_history(contents=True) lists it: a record
\* with fields id, name, file_ext, state and deleted.

TerminalStates == {"ok", "error", "discarded"}

\* AllFinished that takes a discarded dataset as unfinished
AllFinished_NoDiscarded(hist) == \A i \in 1..Len(hist) : hist[i].state \in {"ok", "error"}

\* all(s in ('ok', 'error', 'discarded') for s in states)
AllFinished(hist) == \A i \in 1..Len(hist) : hist[i].state \in TerminalStates

DefaultExts == {"fasta", "fa", "fna", "fasta.gz", "fa.gz", "fna.gz"}

\* HasExt that compares the name as it is written
HasExt_CaseSensitive(ds, exts) ==
    \E lname \in {ds.name} :
        \/ ds.file_ext \in exts
        \/ \E e \in exts : endswith(lname, "." \o e)

\* ext in exts or any(name.lower().endswith('.' + e) for e in exts)
HasExt(ds, exts) ==
    \E lname \in {lower(ds.name)} :
        \/ ds.file_ext \in exts
        \/ \E e \in exts : endswith(lname, "." \o e)

\* if name_contains: name_contains.lower() in name.lower()
HasName(ds, name_contains) ==
    Truthy(name_contains) => In(lower(name_contains[1]), lower(ds.name))

\* for ds in contents: if ...: return ds
RECURSIVE ScanContents(_, _, _)
ScanContents(contents, exts, name_contains) ==
    IF contents = <<>> THEN None
    ELSE IF HasExt(Head(contents), exts) /\ HasName(Head(contents), name_contains)
         THEN Some(Head(contents))
    ELSE ScanContents(Tail(contents), exts, name_contains)

\* what the call of a polling loop found at one poll: Some(result) or None
PollResult(fn, contents, exts, name_contains) ==
    IF fn = "wait_for_history_ready"
    THEN IF AllFinished(contents) THEN Some(contents) ELSE None
    ELSE ScanContents(contents, exts, name_contains)

\* the frame of a polling loop at its entry: start = time.time()
Frame(fn, exts, name_contains, poll_interval, timeout, start) ==
    [fn |-> fn, exts |-> exts, name_contains |-> name_contains,
     poll_interval |-> poll_interval, timeout |-> timeout, start |-> start,
     status |-> "running", polls |-> 0, contents |-> <<>>]

NoLoop == [fn |-> "none", exts |-> {}, name_contains |-> None, poll_interval |-> 0,
           timeout |-> 0, start |-> 0, status |-> "none", polls |-> 0, contents |-> <<>>]

NoRet == [kind |-> "none", value |-> <<>>]

\* polls of one loop explored before the history call stalls past the timeout
MaxPolls == 3

\* a stall of the history call, longer than every timeout
Stall == 3601

\* the time a history call takes: none, until the last poll explored stalls
Latency == IF loop.polls + 1 >= MaxPolls THEN {Stall} ELSE {0}

\* Poll that raises as soon as the elapsed time reaches the timeout
Poll_RaisesAtDeadline ==
    /\ loop.status = "running"
    /\ \E d \in Latency :
          LET contents == history
              found == PollResult(loop.fn, contents, loop.exts, loop.name_contains)
              t == now + d
              polled == [loop EXCEPT !.polls = @ + 1, !.contents = contents]
          IN  IF found # None
              THEN /\ ret' = [kind |-> "return", value |-> found[1]]
                   /\ loop' = [polled EXCEPT !.status = "returned"]
                   /\ now' = t
              ELSE IF t - loop.start >= loop.timeout
              THEN /\ ret' = [kind |-> "raise", value |-> "TimeoutError"]
                   /\ loop' = [polled EXCEPT !.status = "raised"]
                   /\ now' = t
              ELSE /\ ret' = ret
                   /\ loop' = polled
                   /\ now' = t + loop.poll_interval
    /\ UNCHANGED <<pc, args, history, collections, calls, uploaded, name_to_dsid,
                   tools, keywords, tool_id, tool_info, read_slots, tool_inputs>>

\* Poll that tests the deadline before the success condition
Poll_DeadlineFirst ==
    /\ loop.status = "running"
    /\ \E d \in Latency :
          LET contents == history
              found == PollResult(loop.fn, contents, loop.exts, loop.name_contains)
              t == now + d
              polled == [loop EXCEPT !.polls = @ + 1, !.contents = contents]
          IN  IF t - loop.start > loop.timeout
              THEN /\ ret' = [kind |-> "raise", value |-> "TimeoutError"]
                   /\ loop' = [polled EXCEPT !.status = "raised"]
                   /\ now' = t
              ELSE IF found # None
              THEN /\ ret' = [kind |-> "return", value |-> found[1]]
                   /\ loop' = [polled EXCEPT !.status = "returned"]
                   /\ now' = t
              ELSE /\ ret' = ret
                   /\ loop' = polled
                   /\ now' = t + loop.poll_interval
    /\ UNCHANGED <<pc, args, history, collections, calls, uploaded, name_to_dsid,
                   tools, keywords, tool_id, tool_info, read_slots, tool_inputs>>

\* One iteration of `while True:` of either loop: list the history, return on
\* success, else raise past the deadline, else sleep.  contents is the local
\* variable of the loop (hist in wait_for_history_ready), polls counts the
\* listings read.
Poll ==
    /\ loop.status = "running"
    /\ \E d \in Latency :
          LET contents == history
              found == PollResult(loop.fn, contents, loop.exts, loop.name_contains)
              t == now + d
              polled == [loop EXCEPT !.polls = @ + 1, !.contents = contents]
          IN  IF found # None
              THEN /\ ret' = [kind |-> "return", value |-> found[1]]
                   /\ loop' = [polled EXCEPT !.status = "returned"]
                   /\ now' = t
              ELSE IF t - loop.start > loop.timeout
              THEN /\ ret' = [kind |-> "raise", value |-> "TimeoutError"]
                   /\ loop' = [polled EXCEPT !.status = "raised"]
                   /\ now' = t
              ELSE /\ ret' = ret
                   /\ loop' = polled
                   /\ now' = t + loop.poll_interval
    /\ UNCHANGED <<pc, args, history, collections, calls, uploaded, name_to_dsid,
                   tools, keywords, tool_id, tool_info, read_slots, tool_inputs>>

-----------------------------------------------------------------------------
(* The Galaxy server *)

Dataset(id, name, file_ext, state) ==
    [id |-> id, name |-> name, file_ext |-> file_ext, state |-> state, deleted |-> FALSE]

\* the id the server gives to the n-th dataset of the history
DatasetId(n) == CASE n = 1 -> "d1" [] n = 2 -> "d2" [] n = 3 -> "d3" [] n = 4 -> "d4"
                  [] n = 5 -> "d5" [] OTHER -> "d6"

\* a job moves its dataset from queued to running to ok or error; a queued
\* dataset may also be discarded
NextStates(st) == CASE st = "queued" -> {"running", "discarded"}
                    [] st = "running" -> {"ok", "error"}
                    [] OTHER -> {}

RemoteProgress ==
    /\ \E i \in 1..Len(history) : \E st \in NextStates(history[i].state) :
          history' = [history EXCEPT ![i].state = st]
    /\ UNCHANGED <<pc, args, now, collections, calls, uploaded, name_to_dsid,
                   tools, keywords, tool_id, tool_info, read_slots, tool_inputs, loop, ret>>

-----------------------------------------------------------------------------
(* Inputs of the functions checked on their own *)

MaxNodes == 3

MaxTools == 3

MaxKeywords == 2

Node(name, id, label, help, type) ==
    [name |-> name, id |-> id, label |-> label, help |-> help, type |-> type,
     inputs |-> <<>>]

\* inputs a tool schema is built from
NodePool ==
    { Node("R1", "", "", "", "data_input"),
      Node("input1", "", "FASTQ reads", "", "data"),
      Node("input2", "", "", "Sequence file", "data_collection"),
      Node("fwd_reads", "", "", "", "conditional"),
      Node("Forward_Reads", "", "", "", "data"),
      Node("", "reverse_reads", "", "", "data"),
      Node("rev_reads", "", "", "", "text"),
      Node("single_reads", "", "", "", "data"),
      Node("lib|single_reads", "", "", "", "section") }

\* The input lists of n inputs are given by the inputs in depth-first order
\* (q) and the nesting depth of each (d): an input is nested in the last input
\* before it that is less deep.
Depths(n) ==
    { d \in [1..n -> 0..(n - 1)] :
        /\ n >= 1 => d[1] = 0
        /\ \A i \in 1..(n - 1) : d[i + 1] <= d[i] + 1 }

RECURSIVE Nest(_, _, _, _)
\* the input list made of the inputs lo..hi, the first of which is the least deep
Nest(q, d, lo, hi) ==
    IF lo > hi THEN <<>>
    ELSE LET siblings == {j \in (lo + 1)..hi : d[j] = d[lo]}
             last == IF siblings = {} THEN hi
                     ELSE (CHOOSE j \in siblings : \A k \in siblings : j <= k) - 1
         IN  <<[q[lo] EXCEPT !.inputs = Nest(q, d, lo + 1, last)]>> \o Nest(q, d, last + 1, hi)

RECURSIVE SeqsUpTo(_, _)
SeqsUpTo(S, n) ==
    IF n = 0 THEN {<<>>}
    ELSE SeqsUpTo(S, n - 1) \cup { Append(q, x) : q \in SeqsUpTo(S, n - 1), x \in S }

Tool(id, name) == [id |-> id, name |-> name]

\* entries of a tool catalog (Galaxy tool ids of tool shed tools are paths)
ToolPool ==
    { Tool("toolshed/repos/nml/spades/rnaspades/3.15", "rnaSPAdes"),
      Tool("trinity", "Trinity"),
      Tool("t1", "De novo assembly with trinity"),
      Tool("t1", "Concatenate datasets"),
      Tool("", "Oases"),
      Tool("seqtk_seq", "Convert to FASTA") }

KeywordPool == {"rnaSPAdes", "trinity", "oases", "seqtk_seq"}

-----------------------------------------------------------------------------
(* Values of the variables a specification does not use *)

NoArgs == [fastq1 |-> "", fastq2 |-> None, wait_timeout |-> 0]

IdleMain ==
    /\ args = NoArgs
    /\ now = 0
    /\ history = <<>>
    /\ collections = <<>>
    /\ calls = <<>>
    /\ uploaded = <<>>
    /\ name_to_dsid = EmptyMap
    /\ tool_inputs = EmptyMap
    /\ loop = NoLoop
    /\ ret = NoRet

-----------------------------------------------------------------------------
(* find_input_slots_for_reads on its own *)

InitSlots ==
    /\ pc = "find_input_slots_for_reads"
    /\ \E n \in 0..MaxNodes : \E q \in [1..n -> NodePool] : \E d \in Depths(n) :
          tool_info = Nest(q, d, 1, n)
    /\ read_slots = NoSlots
    /\ tools = <<>>
    /\ keywords = <<>>
    /\ tool_id = None
    /\ IdleMain

CallFindInputSlots ==
    /\ pc = "find_input_slots_for_reads"
    /\ read_slots' = find_input_slots_for_reads(tool_info)
    /\ pc' = "returned"
    /\ UNCHANGED <<args, now, history, collections, calls, uploaded, name_to_dsid,
                   tools, keywords, tool_id, tool_info, tool_inputs, loop, ret>>

NextSlots == CallFindInputSlots

SpecSlots == InitSlots /\ [][NextSlots]_vars

-----------------------------------------------------------------------------
(* find_tool_by_keywords on its own *)

InitFind ==
    /\ pc = "find_tool_by_keywords"
    /\ tools \in SeqsUpTo(ToolPool, MaxTools)
    /\ keywords \in SeqsUpTo(KeywordPool, MaxKeywords)
    /\ tool_id = None
    /\ tool_info = <<>>
    /\ read_slots = NoSlots
    /\ IdleMain

CallFindTool ==
    /\ pc = "find_tool_by_keywords"
    /\ tool_id' = find_tool_by_keywords(tools, keywords)
    /\ pc' = "returned"
    /\ UNCHANGED <<args, now, history, collections, calls, uploaded, name_to_dsid,
                   tools, keywords, tool_info, read_slots, tool_inputs, loop, ret>>

NextFind == CallFindTool

SpecFind == InitFind /\ [][NextFind]_vars

-----------------------------------------------------------------------------
(* Properties of find_input_slots_for_reads *)

\* the inputs of a schema in depth-first pre-order
RECURSIVE Preorder(_)
Preorder(inp_list) ==
    IF inp_list = <<>> THEN <<>>
    ELSE <<Head(inp_list)>> \o Preorder(Head(inp_list).inputs) \o Preorder(Tail(inp_list))

Matching(q, P(_)) == {i \in 1..Len(q) : P(q[i])}

Min(S) == CHOOSE x \in S : \A y \in S : x <= y

Max(S) == CHOOSE x \in S : \A y \in S : x >= y

\* the name of the first (last) input of q that satisfies P, None without one
FirstName(q, P(_)) ==
    LET hits == Matching(q, P)
    IN  IF hits = {} THEN None ELSE Some(InpName(q[Min(hits)]))

LastName(q, P(_)) ==
    LET hits == Matching(q, P)
    IN  IF hits = {} THEN None ELSE Some(InpName(q[Max(hits)]))

MatchesRightWords(inp) ==
    LET combined == Combined(inp)
    IN  inp.type \in DataTypes /\ AnyIn(RightWords, combined)

\* C3: the returned left (right) slot is the name of the first file-accepting
\* input, in depth-first order, that matches the left (right) keyword set.
C3_LeftRightFirstMatch ==
    pc = "returned" =>
        /\ read_slots.left = FirstName(Preorder(tool_info), IsLeft)
        /\ read_slots.right = FirstName(Preorder(tool_info), MatchesRightWords)

\* C8: the returned single slot is the name of the first file-accepting input,
\* in depth-first order, that matches neither the left nor the right keywords
\* and whose name/label mentions reads, fastq or sequence; and once a prefix of
\* the schema has assigned single, the inputs that follow do not change it.
C8_SingleFirstMatch ==
    pc = "returned" =>
        /\ read_slots.single = FirstName(Preorder(tool_info), IsSingle)
        /\ \A k \in 0..Len(tool_info) :
              LET before == find_input_slots_for_reads(SubSeq(tool_info, 1, k)).single
              IN  before # None => read_slots.single = before

\* a schema with two single candidates of different names, the first one kept
C8_Witness ==
    /\ pc = "returned"
    /\ \E i, j \in Matching(Preorder(tool_info), IsSingle) :
          /\ i < j
          /\ InpName(Preorder(tool_info)[i]) # InpName(Preorder(tool_info)[j])
          /\ read_slots.single = Some(InpName(Preorder(tool_info)[i]))

\* C9: each explicit field is the name of the last input, in depth-first
\* pre-order over all nested input lists, whose lowercased name contains the
\* literal, whatever the type of the input; None when there is none.
C9_ExplicitLastMatch ==
    pc = "returned" =>
        /\ read_slots.explicit_single = LastName(Preorder(tool_info), IsExplicitSingle)
        /\ read_slots.explicit_fwd = LastName(Preorder(tool_info), IsExplicitFwd)
        /\ read_slots.explicit_rev = LastName(Preorder(tool_info), IsExplicitRev)

\* two inputs named like fwd_reads at different depths, the later one a
\* container nested in the first, and the later one is returned
C9_Witness ==
    /\ pc = "returned"
    /\ Len(tool_info) >= 1
    /\ IsExplicitFwd(tool_info[1])
    /\ Len(tool_info[1].inputs) >= 1
    /\ IsExplicitFwd(tool_info[1].inputs[1])
    /\ tool_info[1].inputs[1].type \notin DataTypes
    /\ InpName(tool_info[1]) # InpName(tool_info[1].inputs[1])
    /\ Matching(Preorder(tool_info), IsExplicitFwd) = {1, 2}
    /\ read_slots.explicit_fwd = Some(InpName(tool_info[1].inputs[1]))

-----------------------------------------------------------------------------
(* Properties of find_tool_by_keywords *)

ToolMatches(kw, t) == KeywordMatches(kw, t.id, t.name)

\* C7: the result is the id of the first tool of the catalog that matches the
\* first keyword that matches any tool, and None exactly when no keyword
\* matches any tool.
C7_FirstKeywordFirstTool ==
    pc = "returned" =>
        LET hits(i) == {j \in 1..Len(tools) : ToolMatches(keywords[i], tools[j])}
            kws == {i \in 1..Len(keywords) : hits(i) # {}}
        IN  IF kws = {} THEN tool_id = None
            ELSE tool_id = Some(tools[Min(hits(Min(kws)))].id)

-----------------------------------------------------------------------------
(* The polling loops on their own *)

MaxDatasets == 2

\* name and file_ext of the datasets of a history
DatasetKinds ==
    { <<"sample.fastq", "fastqsanger">>,
      <<"result.FASTA.gz", "">>,
      <<"Result.FA", "txt">>,
      <<"contigs", "fasta">> }

\* the kinds the settle wait is explored with: its test reads the state only
UploadKinds == {<<"sample.fastq", "fastqsanger">>}

DatasetStates == {"queued", "running", "ok", "error", "discarded"}

\* the histories of up to n datasets of the given kinds and states
RECURSIVE Histories(_, _, _)
Histories(n, kinds, states) ==
    IF n = 0 THEN {<<>>}
    ELSE Histories(n - 1, kinds, states) \cup
         { Append(h, Dataset(DatasetId(Len(h) + 1), k[1], k[2], st)) :
             h \in Histories(n - 1, kinds, states), k \in kinds, st \in states }

\* calls of wait_for_history_ready
WaitFrames ==
    { Frame("wait_for_history_ready", {}, None, 3, timeout, 0) : timeout \in {0, 5} }

\* calls of poll_history_for_dataset_with_ext
OutputFrames ==
    { Frame("poll_history_for_dataset_with_ext", exts, name_contains, 5, timeout, 0) :
        exts \in {{"fasta"}, DefaultExts}, name_contains \in {None, Some("RESULT")},
        timeout \in {0, 5} }

InitPoll ==
    /\ pc = "polling"
    /\ \/ /\ loop \in WaitFrames
          /\ history \in Histories(MaxDatasets, UploadKinds, DatasetStates)
       \/ /\ loop \in OutputFrames
          /\ history \in Histories(MaxDatasets, DatasetKinds, {"running", "ok"})
    /\ now = 0
    /\ ret = NoRet
    /\ args = NoArgs
    /\ collections = <<>>
    /\ calls = <<>>
    /\ uploaded = <<>>
    /\ name_to_dsid = EmptyMap
    /\ tool_inputs = EmptyMap
    /\ tools = <<>>
    /\ keywords = <<>>
    /\ tool_id = None
    /\ tool_info = <<>>
    /\ read_slots = NoSlots

\* a job of the history creates one more dataset
RemoteNewDataset ==
    /\ Len(history) < MaxDatasets
    /\ \E k \in IF loop.fn = "wait_for_history_ready" THEN UploadKinds ELSE DatasetKinds :
          history' = Append(history, Dataset(DatasetId(Len(history) + 1), k[1], k[2], "queued"))
    /\ UNCHANGED <<pc, args, now, collections, calls, uploaded, name_to_dsid,
                   tools, keywords, tool_id, tool_info, read_slots, tool_inputs, loop, ret>>

NextPoll ==
    \/ Poll
    \/ loop.status = "running" /\ loop.fn = "wait_for_history_ready" /\ RemoteProgress
    \/ loop.status = "running" /\ RemoteNewDataset

SpecPoll == InitPoll /\ [][NextPoll]_vars

\* the loop is sequential code that keeps running: its next iteration is
\* always taken, and the history call returns
SpecPollFair == InitPoll /\ [][NextPoll]_vars /\ WF_vars(Poll)

-----------------------------------------------------------------------------
(* Properties of the polling loops *)

LastSeen == loop.contents

\* the extension field is accepted or the lowercased name ends with a dot and
\* an accepted extension, and the lowercased name contains the lowercased filter
Accepted(ds) ==
    LET n == lower(ds.name)
        f == lower(loop.name_contains[1])
    IN  /\ \/ ds.file_ext \in loop.exts
           \/ \E e \in loop.exts : \E k \in 0..Len(n) : SubSeq(n, k + 1, Len(n)) = "." \o e
        /\ Truthy(loop.name_contains) =>
              \E i \in 1..(Len(n) - Len(f) + 1) : SubSeq(n, i, i + Len(f) - 1) = f

\* C2 as stated: with the accepted extensions {"fasta"}, a listing that holds a
\* dataset named result.FASTA.gz with an empty extension field makes the loop
\* return instead of timing out.
C2_FastaGzMatchesFasta ==
    (/\ loop.fn = "poll_history_for_dataset_with_ext"
     /\ loop.exts = {"fasta"}
     /\ loop.name_contains = None
     /\ loop.polls >= 1
     /\ \E i \in 1..Len(LastSeen) :
           LastSeen[i].name = "result.FASTA.gz" /\ LastSeen[i].file_ext = "")
    => loop.status = "returned"

\* C2 amended: a poll returns the first item of its listing whose extension
\* field is accepted or whose lowercased name ends with "." and an accepted
\* extension (and whose name contains the filter, if one is given); a poll
\* whose listing has no such item does not return.  So result.FASTA.gz with an
\* empty extension field is matched by "fasta.gz" and not by "fasta".
C2_FirstAcceptedItem ==
    (loop.fn = "poll_history_for_dataset_with_ext" /\ loop.polls >= 1) =>
        LET hits == {i \in 1..Len(LastSeen) : Accepted(LastSeen[i])}
        IN  IF hits = {} THEN loop.status # "returned"
            ELSE loop.status = "returned" /\ ret.value = LastSeen[Min(hits)]

\* with {"fasta"} accepted, result.FASTA.gz is listed first and passed over,
\* and the dataset after it is returned
C2_Witness ==
    /\ loop.fn = "poll_history_for_dataset_with_ext"
    /\ loop.exts = {"fasta"}
    /\ loop.status = "returned"
    /\ Len(LastSeen) = 2
    /\ LastSeen[1].name = "result.FASTA.gz" /\ LastSeen[1].file_ext = ""
    /\ ret.value = LastSeen[2]

Settled(listing) ==
    \A i \in 1..Len(listing) : listing[i].state \in {"ok", "error", "discarded"}

-----------------------------------------------------------------------------
(* main: building the tool inputs *)

\* d.get(k)
Get(d, k) == IF k \in DOMAIN d THEN Some(d[k]) ELSE None

\* {'src': src, 'id': id}; id is an optional value
Ref(src, id) == [src |-> src, id |-> id]

\* a value of the mapping that is not a reference
Literal(v) == [literal |-> v]

\* if args.fastq2
Paired(a) == Truthy(a.fastq2)

\* the loop over contents of main: name_to_dsid[up] = ds_id for every
\* uploaded basename that occurs in the name of a dataset that is not deleted
RECURSIVE ResolveUploads(_, _, _)
ResolveUploads(contents, ups, d) ==
    IF contents = <<>> THEN d
    ELSE LET ds == Head(contents)
             hit == {ups[i] : i \in {j \in 1..Len(ups) : In(ups[j], ds.name)}}
         IN  IF ds.deleted THEN ResolveUploads(Tail(contents), ups, d)
             ELSE ResolveUploads(Tail(contents), ups,
                      [x \in (DOMAIN d) \cup hit |-> IF x \in hit THEN ds.id ELSE d[x]])

\* i.get('name') or i.get('id'): None when the input has neither
NameOrId(i) == IF InpName(i) = "" THEN None ELSE Some(InpName(i))

CollectionWords == {"read", "fastq", "sequence", "rna"}

RECURSIVE find_collection_input(_, _)
\* preferred is the local of the call, None at its start
find_collection_input(inp_list, preferred) ==
    IF inp_list = <<>> THEN preferred
    ELSE LET i == Head(inp_list)
             isColl == i.type = "data_collection"
             wanted == isColl /\ AnyIn(CollectionWords, lower(InpName(i)) \o " " \o lower(InpLabel(i)))
             pref == IF isColl /\ preferred = None THEN NameOrId(i) ELSE preferred
             r == find_collection_input(i.inputs, None)
         IN  IF wanted THEN NameOrId(i)
             ELSE IF Truthy(r) THEN r
             ELSE find_collection_input(Tail(inp_list), pref)

RECURSIVE find_any_data_input(_)
find_any_data_input(inp_list) ==
    IF inp_list = <<>> THEN None
    ELSE LET i == Head(inp_list)
             r == find_any_data_input(i.inputs)
         IN  IF i.type \in {"data", "data_input"} THEN NameOrId(i)
             ELSE IF Truthy(r) THEN r
             ELSE find_any_data_input(Tail(inp_list))

\* the id the server gives to the n-th collection of the history
CollectionId(n) == IF n = 1 THEN "c1" ELSE "c2"

Element(name, id) == [name |-> name, src |-> "hda", id |-> id]

Built(m, coll) == [outcome |-> "built", inputs |-> m, collection |-> coll]

NotBuilt(outcome) == [outcome |-> outcome, inputs |-> EmptyMap, collection |-> None]

\* the fixed keys of rnaSPAdes
RnaSpadesInputs(a, d) ==
    LET dsid == Get(d, a.fastq1)
        right_ds == Get(d, a.fastq2[1])
        type == "libraries_0|files_0|file_type|type"
        fwd == "libraries_0|files_0|file_type|fwd_reads"
        rev == "libraries_0|files_0|file_type|rev_reads"
        unpaired == "libraries_0|files_0|file_type|unpaired_reads"
    IN  IF Paired(a)
        THEN IF ~Truthy(right_ds) THEN NotBuilt("exit")
             ELSE Built(Put(Put(Put(EmptyMap, type, Literal("separate")),
                                fwd, Ref("hda", dsid)), rev, Ref("hda", right_ds)), None)
        ELSE Built(Put(Put(EmptyMap, type, Literal("unpaired")),
                       unpaired, Ref("hda", dsid)), None)

\* PairedInputs that gives the single slot the first dataset, without a collection
PairedInputs_NoCollection(a, slots, d, coll_id) ==
    LET fwd_slot == Or(slots.explicit_fwd, slots.left)
        rev_slot == Or(slots.explicit_rev, slots.right)
        left_ds == Get(d, a.fastq1)
        right_ds == Get(d, a.fastq2[1])
        single_slot == slots.single
    IN  IF Truthy(fwd_slot) /\ Truthy(rev_slot)
        THEN IF ~Truthy(left_ds) \/ ~Truthy(right_ds) THEN NotBuilt("exit")
             ELSE Built(Put(Put(EmptyMap, fwd_slot[1], Ref("hda", left_ds)),
                            rev_slot[1], Ref("hda", right_ds)), None)
        ELSE IF Truthy(single_slot)
        THEN IF a.fastq1 \notin DOMAIN d \/ a.fastq2[1] \notin DOMAIN d THEN NotBuilt("KeyError")
             ELSE Built(Put(EmptyMap, single_slot[1], Ref("hda", left_ds)), None)
        ELSE NotBuilt("exit")

PairedInputs(a, slots, d, coll_id) ==
    LET fwd_slot == Or(slots.explicit_fwd, slots.left)
        rev_slot == Or(slots.explicit_rev, slots.right)
        left_ds == Get(d, a.fastq1)
        right_ds == Get(d, a.fastq2[1])
        single_slot == slots.single
        f1 == a.fastq1
        f2 == a.fastq2[1]
    IN  IF Truthy(fwd_slot) /\ Truthy(rev_slot)
        THEN IF ~Truthy(left_ds) \/ ~Truthy(right_ds) THEN NotBuilt("exit")
             ELSE Built(Put(Put(EmptyMap, fwd_slot[1], Ref("hda", left_ds)),
                            rev_slot[1], Ref("hda", right_ds)), None)
        ELSE IF Truthy(single_slot)
        THEN IF f1 \notin DOMAIN d \/ f2 \notin DOMAIN d THEN NotBuilt("KeyError")
             ELSE Built(Put(EmptyMap, single_slot[1], Ref("hdca", Some(coll_id))),
                        Some([name |-> "paired_collection_demo", collection_type |-> None,
                              elements |-> <<Element(f1, Some(d[f1])), Element(f2, Some(d[f2]))>>]))
        ELSE NotBuilt("exit")

\* SingleInputs that prefers the inferred single slot to the explicit key
SingleInputs_InferredFirst(a, info, slots, d, coll_id) ==
    LET dsid == Get(d, a.fastq1)
        single_slot == Or(slots.single, slots.explicit_single)
        collection_slot == find_collection_input(info, None)
        any_slot == find_any_data_input(info)
    IN  IF Truthy(single_slot)
        THEN Built(Put(EmptyMap, single_slot[1], Ref("hda", dsid)), None)
        ELSE IF Truthy(collection_slot)
        THEN Built(Put(EmptyMap, collection_slot[1], Ref("hdca", Some(coll_id))),
                   Some([name |-> "reads_list", collection_type |-> Some("list"),
                         elements |-> <<Element(a.fastq1, dsid)>>]))
        ELSE IF Truthy(any_slot)
        THEN Built(Put(EmptyMap, any_slot[1], Ref("hda", dsid)), None)
        ELSE NotBuilt("exit")

SingleInputs(a, info, slots, d, coll_id) ==
    LET dsid == Get(d, a.fastq1)
        single_slot == Or(slots.explicit_single, slots.single)
        collection_slot == find_collection_input(info, None)
        any_slot == find_any_data_input(info)
    IN  IF Truthy(single_slot)
        THEN Built(Put(EmptyMap, single_slot[1], Ref("hda", dsid)), None)
        ELSE IF Truthy(collection_slot)
        THEN Built(Put(EmptyMap, collection_slot[1], Ref("hdca", Some(coll_id))),
                   Some([name |-> "reads_list", collection_type |-> Some("list"),
                         elements |-> <<Element(a.fastq1, dsid)>>]))
        ELSE IF Truthy(any_slot)
        THEN Built(Put(EmptyMap, any_slot[1], Ref("hda", dsid)), None)
        ELSE NotBuilt("exit")

\* lines 182-286 of main: the mapping, the collection to create for it, or
\* the way the program ends
BuildInputs(a, tid, info, slots, d, coll_id) ==
    IF In("rnaspades", lower(tid)) THEN RnaSpadesInputs(a, d)
    ELSE IF Paired(a) THEN PairedInputs(a, slots, d, coll_id)
    ELSE SingleInputs(a, info, slots, d, coll_id)

-----------------------------------------------------------------------------
(* main *)

Candidates ==
    <<"rnaSPAdes", "rnaspades", "trinity", "rnaplants", "rna-bloom", "rna_bloom",
      "transabyss", "oases">>

ConvCandidates ==
    <<"toolshed.g2.bx.psu.edu/repos/devteam/fastq_to_fasta/fastq_to_fasta",
      "seqtk_seq", "seqtk_seq_v2">>

\* conv_inputs of the fallback conversion
ConvInputs(dsid) ==
    [k \in {"input_fastq", "input_file", "fastq", "input",
            "to_fasta", "fasta_output", "convert_to_fasta"} |->
        IF k \in {"input_fastq", "input_file", "fastq", "input"}
        THEN Ref("hda", dsid) ELSE Literal(TRUE)]

Call(op, arg) == [op |-> op, arg |-> arg]

\* [args.fastq1, args.fastq2] if args.fastq2 else [args.fastq1], as basenames
Files(a) == IF Paired(a) THEN <<a.fastq1, a.fastq2[1]>> ELSE <<a.fastq1>>

\* command lines: the basenames of --fastq1 and --fastq2, and --wait-timeout
MainArgs ==
    { [fastq1 |-> "s_R1.fastq", fastq2 |-> f2, wait_timeout |-> 3600] :
        f2 \in {None, Some("s_R2.fastq")} }

\* the name the server gives to the dataset of an uploaded file: the name of
\* the file, or a name of its own
ServerNames(file) == {file, "Pasted Entry"}

\* what get_tools returns
MainCatalogs ==
    { <<>>,
      << Tool("toolshed/repos/nml/spades/rnaspades/3.15", "rnaSPAdes") >>,
      << Tool("trinity", "Trinity") >>,
      << Tool("seqtk_seq", "Convert to FASTA") >>,
      << Tool("seqtk_seq", "Convert to FASTA"), Tool("oases", "Oases") >> }

Inside(nd, sub) == [nd EXCEPT !.inputs = sub]

\* what show_tool returns for the selected tool: its inputs
MainSchemas ==
    { <<>>,
      << Node("input1", "", "FASTQ reads", "", "data") >>,
      << Node("input3", "", "paired files", "", "data_collection") >>,
      << Node("input2", "", "", "Sequence file", "data_collection") >>,
      << Node("R1", "", "", "", "data"), Node("r2", "", "Right mates", "", "data") >>,
      << Inside(Node("lib", "", "", "", "section"),
                << Node("lib|fwd_reads", "", "", "", "conditional"),
                   Node("lib|rev_reads", "", "", "", "text") >>) >>,
      << Node("k", "", "k-mer", "", "integer"),
         Inside(Node("adv", "", "", "", "section"),
                << Node("infile", "", "Input file", "", "data") >>) >>,
      << Node("lib|single_reads", "", "", "", "conditional"),
         Node("input1", "", "FASTQ reads", "", "data") >> }

\* the datasets a tool run adds to the history: name and file_ext
JobOutputs ==
    { <<>>,
      << <<"transcripts.fasta", "fasta">> >>,
      << <<"assembly log", "txt">>, <<"Contigs.FA", "">> >> }

RECURSIVE NewDatasets(_, _)
NewDatasets(kinds, n) ==
    IF kinds = <<>> THEN <<>>
    ELSE <<Dataset(DatasetId(n + 1), Head(kinds)[1], Head(kinds)[2], "queued")>>
         \o NewDatasets(Tail(kinds), n + 1)

Init ==
    /\ pc = "create_history"
    /\ args \in MainArgs
    /\ now = 0
    /\ history = <<>>
    /\ collections = <<>>
    /\ calls = <<>>
    /\ uploaded = <<>>
    /\ name_to_dsid = EmptyMap
    /\ tools = <<>>
    /\ keywords = <<>>
    /\ tool_id = None
    /\ tool_info = <<>>
    /\ read_slots = NoSlots
    /\ tool_inputs = EmptyMap
    /\ loop = NoLoop
    /\ ret = NoRet

\* history = gi.histories.create_history(name=args.history_name)
CreateHistory ==
    /\ pc = "create_history"
    /\ calls' = Append(calls, Call("create_history", None))
    /\ pc' = "upload"
    /\ UNCHANGED <<args, now, history, collections, uploaded, name_to_dsid, tools,
                   keywords, tool_id, tool_info, read_slots, tool_inputs, loop, ret>>

\* one iteration of the upload loop
Upload ==
    /\ pc = "upload"
    /\ Len(uploaded) < Len(Files(args))
    /\ LET file == Files(args)[Len(uploaded) + 1]
       IN  /\ \E name \in ServerNames(file) :
                 history' = Append(history,
                                Dataset(DatasetId(Len(history) + 1), name, "fastqsanger", "queued"))
           /\ calls' = Append(calls, Call("upload_file", Some(file)))
           /\ uploaded' = Append(uploaded, file)
    /\ UNCHANGED <<pc, args, now, collections, name_to_dsid, tools, keywords, tool_id,
                   tool_info, read_slots, tool_inputs, loop, ret>>

\* wait_for_history_ready(gi, history_id, poll_interval=3, timeout=args.wait_timeout//4)
WaitUploads ==
    /\ pc = "upload"
    /\ Len(uploaded) = Len(Files(args))
    /\ loop' = Frame("wait_for_history_ready", {}, None, 3, args.wait_timeout \div 4, now)
    /\ pc' = "wait_uploads"
    /\ UNCHANGED <<args, now, history, collections, calls, uploaded, name_to_dsid, tools,
                   keywords, tool_id, tool_info, read_slots, tool_inputs, ret>>

\* Resolve that does not wait for the settle wait to return
Resolve_WithoutWaiting ==
    /\ pc = "wait_uploads"
    /\ name_to_dsid' = ResolveUploads(history, uploaded, EmptyMap)
    /\ pc' = IF DOMAIN name_to_dsid' = {} THEN "exit" ELSE "find_tool"
    /\ loop' = NoLoop
    /\ ret' = NoRet
    /\ UNCHANGED <<args, now, history, collections, calls, uploaded, tools, keywords,
                   tool_id, tool_info, read_slots, tool_inputs>>

\* lines 155-169: list the history and resolve the uploaded names; the value
\* wait_for_history_ready returned is dropped
Resolve ==
    /\ pc = "wait_uploads"
    /\ loop.status = "returned"
    /\ name_to_dsid' = ResolveUploads(history, uploaded, EmptyMap)
    /\ pc' = IF DOMAIN name_to_dsid' = {} THEN "exit" ELSE "find_tool"
    /\ loop' = NoLoop
    /\ ret' = NoRet
    /\ UNCHANGED <<args, now, history, collections, calls, uploaded, tools, keywords,
                   tool_id, tool_info, read_slots, tool_inputs>>

\* FindTool that goes on to the fallback conversion when no assembler is found
FindTool_FallsBackToConversion ==
    /\ pc = "find_tool"
    /\ \E catalog \in MainCatalogs : tools' = catalog
    /\ keywords' = Candidates
    /\ tool_id' = find_tool_by_keywords(tools', Candidates)
    /\ calls' = Append(calls, Call("get_tools", None))
    /\ pc' = IF Truthy(tool_id') THEN "show_tool" ELSE "run"
    /\ UNCHANGED <<args, now, history, collections, uploaded, name_to_dsid, tool_info,
                   read_slots, tool_inputs, loop, ret>>

\* lines 171-175: tool_id = find_tool_by_keywords(gi, candidates)
FindTool ==
    /\ pc = "find_tool"
    /\ \E catalog \in MainCatalogs : tools' = catalog
    /\ keywords' = Candidates
    /\ tool_id' = find_tool_by_keywords(tools', Candidates)
    /\ calls' = Append(calls, Call("get_tools", None))
    /\ pc' = IF Truthy(tool_id') THEN "show_tool" ELSE "exit"
    /\ UNCHANGED <<args, now, history, collections, uploaded, name_to_dsid, tool_info,
                   read_slots, tool_inputs, loop, ret>>

\* lines 178-179: the schema of the tool and its read slots
ShowTool ==
    /\ pc = "show_tool"
    /\ \E schema \in MainSchemas : tool_info' = schema
    /\ read_slots' = find_input_slots_for_reads(tool_info')
    /\ calls' = Append(calls, Call("show_tool", tool_id))
    /\ pc' = "build"
    /\ UNCHANGED <<args, now, history, collections, uploaded, name_to_dsid, tools,
                   keywords, tool_id, tool_inputs, loop, ret>>

\* lines 182-286: build tool_inputs, creating the collection it refers to
BuildToolInputs ==
    /\ pc = "build"
    /\ LET coll_id == CollectionId(Len(collections) + 1)
           b == BuildInputs(args, tool_id[1], tool_info, read_slots, name_to_dsid, coll_id)
       IN  /\ tool_inputs' = b.inputs
           /\ IF b.collection # None
              THEN /\ collections' = Append(collections, [id |-> coll_id, desc |-> b.collection[1]])
                   /\ calls' = Append(calls, Call("create_dataset_collection", b.collection))
              ELSE UNCHANGED <<collections, calls>>
           /\ pc' = IF b.outcome = "built" THEN "run" ELSE b.outcome
    /\ UNCHANGED <<args, now, history, uploaded, name_to_dsid, tools, keywords, tool_id,
                   tool_info, read_slots, loop, ret>>

\* lines 288-322: run the tool, or the conversion tool when tool_inputs is
\* empty, and wait for the history to settle; the run adds its output
\* datasets to the history
RunTool ==
    /\ pc = "run"
    /\ IF tool_inputs = EmptyMap
       THEN LET conv_tool == find_tool_by_keywords(tools, ConvCandidates)
                dsid == Get(name_to_dsid, args.fastq1)
            IN  IF ~Truthy(conv_tool)
                THEN /\ pc' = "exit"
                     /\ calls' = Append(calls, Call("get_tools", None))
                     /\ UNCHANGED <<history, loop>>
                ELSE /\ calls' = calls \o <<Call("get_tools", None),
                                           Call("run_tool", <<conv_tool[1], ConvInputs(dsid)>>)>>
                     /\ \E out \in JobOutputs :
                           history' = history \o NewDatasets(out, Len(history))
                     /\ loop' = Frame("wait_for_history_ready", {}, None, 5,
                                      args.wait_timeout \div 2, now)
                     /\ pc' = "wait_conversion"
       ELSE /\ calls' = Append(calls, Call("run_tool", <<tool_id[1], tool_inputs>>))
            /\ \E out \in JobOutputs : history' = history \o NewDatasets(out, Len(history))
            /\ loop' = Frame("wait_for_history_ready", {}, None, 10, args.wait_timeout, now)
            /\ pc' = "wait_tool"
    /\ UNCHANGED <<args, now, collections, uploaded, name_to_dsid, tools, keywords,
                   tool_id, tool_info, read_slots, tool_inputs, ret>>

\* lines 315-316 and 325-326: poll_history_for_dataset_with_ext(...)
PollFasta ==
    /\ pc \in {"wait_tool", "wait_conversion"}
    /\ loop.status = "returned"
    /\ loop' = Frame("poll_history_for_dataset_with_ext", DefaultExts, None, 5,
                     IF pc = "wait_tool" THEN 1200 ELSE 900, now)
    /\ pc' = IF pc = "wait_tool" THEN "poll_fasta" ELSE "poll_conversion"
    /\ ret' = NoRet
    /\ UNCHANGED <<args, now, history, collections, calls, uploaded, name_to_dsid, tools,
                   keywords, tool_id, tool_info, read_slots, tool_inputs>>

\* lines 334-342: download the dataset found
Download ==
    /\ pc \in {"poll_fasta", "poll_conversion"}
    /\ loop.status = "returned"
    /\ calls' = Append(calls, Call("download_dataset", Some(ret.value.id)))
    /\ pc' = "done"
    /\ UNCHANGED <<args, now, history, collections, uploaded, name_to_dsid, tools,
                   keywords, tool_id, tool_info, read_slots, tool_inputs, loop, ret>>

\* TimeoutExit that exits without listing the history
TimeoutExit_NoListing ==
    /\ pc = "poll_fasta"
    /\ loop.status = "raised"
    /\ pc' = "exit"
    /\ UNCHANGED <<args, now, history, collections, calls, uploaded, name_to_dsid, tools,
                   keywords, tool_id, tool_info, read_slots, tool_inputs, loop, ret>>

\* lines 327-332: the TimeoutError of the poll after the tool run is caught,
\* the history is listed and printed, and the program exits
TimeoutExit ==
    /\ pc = "poll_fasta"
    /\ loop.status = "raised"
    /\ calls' = Append(calls, Call("show_history", None))
    /\ pc' = "exit"
    /\ UNCHANGED <<args, now, history, collections, uploaded, name_to_dsid, tools,
                   keywords, tool_id, tool_info, read_slots, tool_inputs, loop, ret>>

\* a TimeoutError raised anywhere else is not caught
TimeoutError ==
    /\ pc \in {"wait_uploads", "wait_tool", "wait_conversion", "poll_conversion"}
    /\ loop.status = "raised"
    /\ pc' = "TimeoutError"
    /\ UNCHANGED <<args, now, history, collections, calls, uploaded, name_to_dsid, tools,
                   keywords, tool_id, tool_info, read_slots, tool_inputs, loop, ret>>

\* sys.exit(1), an uncaught exception, or the end of main
Ended == pc \in {"exit", "KeyError", "TimeoutError", "done"}

Next ==
    \/ CreateHistory
    \/ Upload
    \/ WaitUploads
    \/ Poll
    \/ Resolve
    \/ FindTool
    \/ ShowTool
    \/ BuildToolInputs
    \/ RunTool
    \/ PollFasta
    \/ Download
    \/ TimeoutExit
    \/ TimeoutError
    \/ ~Ended /\ RemoteProgress

Spec == Init /\ [][Next]_vars

-----------------------------------------------------------------------------
(* Properties of main *)

\* the positions of main before tool_inputs is built
BeforeBuild == {"create_history", "upload", "wait_uploads", "find_tool", "show_tool", "build"}

RunCalls == {i \in 1..Len(calls) : calls[i].op = "run_tool"}

CollectionCalls == {i \in 1..Len(calls) : calls[i].op = "create_dataset_collection"}

\* the mapping submitted by the i-th call, a run_tool
Submitted(i) == calls[i].arg[2]

IsRef(v) == "src" \in DOMAIN v

\* a reference names a dataset or a collection of the history
RefExists(v) ==
    /\ v.id # None
    /\ v.src = "hda" => \E j \in 1..Len(history) : history[j].id = v.id[1]
    /\ v.src = "hdca" => \E j \in 1..Len(collections) : collections[j].id = v.id[1]

\* a tool was selected, and it is not the special-cased rnaSPAdes
General == Truthy(tool_id) /\ ~In("rnaspades", lower(tool_id[1]))

AllResolved == \A i \in 1..Len(Files(args)) : Files(args)[i] \in DOMAIN name_to_dsid

\* C1: every reference of a submitted mapping names a dataset or collection of
\* the history, and no run is submitted unless every uploaded file name was
\* resolved to a dataset id.
C1_SubmittedRefsExist ==
    \A i \in RunCalls :
        /\ \A k \in DOMAIN Submitted(i) : IsRef(Submitted(i)[k]) => RefExists(Submitted(i)[k])
        /\ AllResolved

\* the schema of the scenario: one collection input labeled "paired files"
PairedFilesSchema == << Node("input3", "", "paired files", "", "data_collection") >>

\* C4 as stated: a paired run whose tool, not special-cased, has only a
\* collection input labeled "paired files" does not abort when the inputs are
\* built: it creates a collection of two elements and then submits a mapping
\* that refers to it.
C4_PairedFilesCollection ==
    (/\ Paired(args) /\ pc \notin BeforeBuild /\ General
     /\ tool_info = PairedFilesSchema /\ AllResolved)
    => /\ pc = "run" \/ RunCalls # {}
       /\ Len(collections) = 1
       /\ Len(collections[1].desc.elements) = 2

\* C4 amended: in a paired run with a tool that is not special-cased and both
\* file names resolved, when the matcher found no forward/reverse pair but a
\* single slot (a file-accepting input that mentions reads, fastq or sequence),
\* exactly one collection is created, of the two resolved datasets in order,
\* before the run, and the one mapping submitted is that slot referring to the
\* collection by its id; the input labeled "paired files" is no single slot,
\* and there the program exits without a collection or a run.
C4_SingleSlotCollection ==
    (Paired(args) /\ pc \notin BeforeBuild /\ General /\ AllResolved) =>
        LET fwd == Or(read_slots.explicit_fwd, read_slots.left)
            rev == Or(read_slots.explicit_rev, read_slots.right)
        IN  /\ (~(Truthy(fwd) /\ Truthy(rev)) /\ Truthy(read_slots.single)) =>
                  /\ Len(collections) = 1
                  /\ collections[1].desc.elements =
                        << Element(args.fastq1, Some(name_to_dsid[args.fastq1])),
                           Element(args.fastq2[1], Some(name_to_dsid[args.fastq2[1]])) >>
                  /\ Cardinality(CollectionCalls) = 1
                  /\ pc # "run" => Cardinality(RunCalls) = 1
                  /\ \A i \in RunCalls :
                        /\ \A j \in CollectionCalls : j < i
                        /\ Submitted(i) =
                              Put(EmptyMap, read_slots.single[1],
                                  Ref("hdca", Some(collections[1].id)))
            /\ tool_info = PairedFilesSchema =>
                  pc = "exit" /\ collections = <<>> /\ RunCalls = {} /\ CollectionCalls = {}

\* a paired run submitted with the collection built for a collection input
\* whose help mentions "Sequence"
C4_Witness ==
    /\ Paired(args) /\ General
    /\ tool_info = << Node("input2", "", "", "Sequence file", "data_collection") >>
    /\ pc = "wait_tool"
    /\ Len(collections) = 1
    /\ Len(collections[1].desc.elements) = 2
    /\ \E i \in RunCalls : Submitted(i) = Put(EmptyMap, "input2", Ref("hdca", Some("c1")))

\* C5: when a tool that is not special-cased was selected and no mapping could
\* be built for it, the program goes on to the conversion: with a conversion
\* tool in the catalog it does not exit before a run is submitted.
C5_FallbackConversion ==
    (/\ pc \notin BeforeBuild /\ General
     /\ tool_inputs = EmptyMap /\ AllResolved
     /\ Truthy(find_tool_by_keywords(tools, ConvCandidates)))
    => (pc = "run" \/ RunCalls # {})

\* C10: in a single-end run with a tool that is not special-cased whose schema
\* has an explicit single-reads key (the last one) or else an inferred single
\* slot (the first one), the run is submitted once, its mapping is that slot
\* alone, referring directly to the dataset resolved for the file, which is
\* in the history, and no collection is created.
C10_SingleSlotDirect ==
    LET explicit == LastName(Preorder(tool_info), IsExplicitSingle)
        inferred == FirstName(Preorder(tool_info), IsSingle)
        slot == IF Truthy(explicit) THEN explicit ELSE inferred
    IN  (~Paired(args) /\ pc \notin BeforeBuild /\ General /\ Truthy(slot)) =>
            /\ collections = <<>> /\ CollectionCalls = {}
            /\ pc # "run" => Cardinality(RunCalls) = 1
            /\ \A i \in RunCalls :
                  /\ Submitted(i) =
                        Put(EmptyMap, slot[1], Ref("hda", Some(name_to_dsid[args.fastq1])))
                  /\ RefExists(Submitted(i)[slot[1]])

\* the scenario: input1 of type data labeled "FASTQ reads", submitted with d1
C10_Witness ==
    /\ ~Paired(args) /\ General
    /\ tool_info = << Node("input1", "", "FASTQ reads", "", "data") >>
    /\ pc = "wait_tool"
    /\ collections = <<>>
    /\ \E i \in RunCalls : Submitted(i) = Put(EmptyMap, "input1", Ref("hda", Some("d1")))

-----------------------------------------------------------------------------
(* main from the building of the tool inputs to the run, on its own *)

MaxInputs == 3

\* inputs the schema of a paired run is built from
PairedPool ==
    { Node("R1", "", "", "", "data"),
      Node("r2", "", "Right mates", "", "data"),
      Node("fwd_reads", "", "", "", "text"),
      Node("rev_reads", "", "", "", "text"),
      Node("input", "", "Left reads", "", "data"),
      Node("input", "", "Right reads", "", "data") }

\* inputs the schema of a single-end run is built from
SinglePool ==
    { Node("rna_lib", "", "", "", "data_collection"),
      Node("coll", "", "Input list", "", "data_collection"),
      Node("adv", "", "Advanced", "", "section"),
      Node("infile", "", "Input file", "", "data"),
      Node("", "in2", "", "", "data_input"),
      Node("input1", "", "FASTQ reads", "", "data") }

\* command lines: also a basename contained in the other one, and the same
\* basename twice (two files of two directories)
BuildArgs ==
    MainArgs \cup { [fastq1 |-> "s.fq", fastq2 |-> f2, wait_timeout |-> 3600] :
                      f2 \in {Some("s.fq.gz"), Some("s.fq")} }

\* main at line 182, after a run of lines 139-179 that selected Trinity: the
\* uploads are in the history, finished, and at least one name was resolved
InitBuild ==
    /\ pc = "build"
    /\ args \in BuildArgs
    /\ now = 0
    /\ uploaded = Files(args)
    /\ \E names \in [1..Len(uploaded) -> {"own", "other"}] :
          history = [k \in 1..Len(uploaded) |->
                        Dataset(DatasetId(k),
                                IF names[k] = "own" THEN uploaded[k] ELSE "Pasted Entry",
                                "fastqsanger", "ok")]
    /\ name_to_dsid = ResolveUploads(history, uploaded, EmptyMap)
    /\ DOMAIN name_to_dsid # {}
    /\ tools = << Tool("trinity", "Trinity") >>
    /\ keywords = Candidates
    /\ tool_id = find_tool_by_keywords(tools, keywords)
    /\ \E n \in 0..MaxInputs :
          \E q \in [1..n -> IF Paired(args) THEN PairedPool ELSE SinglePool] :
             \E d \in Depths(n) : tool_info = Nest(q, d, 1, n)
    /\ read_slots = find_input_slots_for_reads(tool_info)
    /\ calls = <<Call("create_history", None)>>
                \o [k \in 1..Len(uploaded) |-> Call("upload_file", Some(uploaded[k]))]
                \o <<Call("get_tools", None), Call("show_tool", tool_id)>>
    /\ collections = <<>>
    /\ tool_inputs = EmptyMap
    /\ loop = NoLoop
    /\ ret = NoRet

NextBuild ==
    \/ BuildToolInputs
    \/ RunTool

SpecBuild == InitBuild /\ [][NextBuild]_vars

-----------------------------------------------------------------------------
(* Properties of main: discovery, the special-cased tool, the paired keys *)

GetToolsCalls == {i \in 1..Len(calls) : calls[i].op = "get_tools"}

DownloadCalls == {i \in 1..Len(calls) : calls[i].op = "download_dataset"}

LowerCandidates == [k \in 1..Len(Candidates) |-> lower(Candidates[k])]

\* no tool of the catalog matches a candidate keyword, by id or by name
NoAssembler ==
    \A j \in 1..Len(tools) :
        LET tid == lower(tools[j].id)
            name == lower(tools[j].name)
        IN  \A k \in 1..Len(Candidates) :
               ~In(LowerCandidates[k], tid) /\ ~In(LowerCandidates[k], name)

\* C11: once the catalog was listed and none of its tools matches a candidate
\* keyword, with or without a conversion tool in it, the program has exited,
\* and no run_tool, create_dataset_collection or download_dataset call was
\* made.
C11_NoAssemblerExits ==
    GetToolsCalls # {} =>
        \/ /\ pc = "exit"
           /\ RunCalls = {} /\ CollectionCalls = {} /\ DownloadCalls = {}
           /\ collections = <<>>
        \/ ~NoAssembler

\* the catalog holds a conversion tool only, and the program has exited
C11_Witness ==
    /\ GetToolsCalls # {}
    /\ tools = << Tool("seqtk_seq", "Convert to FASTA") >>
    /\ Truthy(find_tool_by_keywords(tools, ConvCandidates))
    /\ tool_id = None
    /\ pc = "exit"

\* the selected tool is the special-cased rnaSPAdes
SpecialCased == Truthy(tool_id) /\ In("rnaspades", lower(tool_id[1]))

\* the id of the dataset that the k-th upload created: the uploads are the
\* first datasets of the history
UploadedId(k) == history[k].id

FixedKeys(leaf) == "libraries_0|files_0|file_type|" \o leaf

\* the fixed mapping of the special-cased tool for fastq1's dataset (and
\* fastq2's), each a direct reference
FixedMapping ==
    IF Paired(args)
    THEN Put(Put(Put(EmptyMap, FixedKeys("type"), Literal("separate")),
                 FixedKeys("fwd_reads"), Ref("hda", Some(UploadedId(1)))),
             FixedKeys("rev_reads"), Ref("hda", Some(UploadedId(2))))
    ELSE Put(Put(EmptyMap, FixedKeys("type"), Literal("unpaired")),
             FixedKeys("unpaired_reads"), Ref("hda", Some(UploadedId(1))))

\* C12: with the special-cased tool selected, whatever the schema and the
\* slots the matcher inferred from it, every submitted mapping is exactly the
\* fixed one (type, fwd_reads -> fastq1's dataset, rev_reads -> fastq2's
\* dataset for paired input; type, unpaired_reads -> fastq1's dataset for
\* single-end input) and no collection is created.
C12_SpecialCasedFixedKeys ==
    (SpecialCased /\ pc \notin BeforeBuild) =>
        /\ collections = <<>> /\ CollectionCalls = {}
        /\ \A i \in RunCalls : Submitted(i) = FixedMapping

\* C12 where every uploaded file name was resolved
C12_FixedKeysWhenResolved ==
    (SpecialCased /\ pc \notin BeforeBuild /\ AllResolved) =>
        /\ collections = <<>> /\ CollectionCalls = {}
        /\ pc # "run" => Cardinality(RunCalls) = 1
        /\ \A i \in RunCalls : Submitted(i) = FixedMapping

\* the forward and the reverse key of a paired run
FwdKey == Or(read_slots.explicit_fwd, read_slots.left)

RevKey == Or(read_slots.explicit_rev, read_slots.right)

\* fwd -> fastq1's dataset and rev -> fastq2's dataset, each a direct reference
TwoEntries(m, fwd, rev) ==
    /\ DOMAIN m = {fwd, rev}
    /\ Cardinality(DOMAIN m) = 2
    /\ m[fwd] = Ref("hda", Some(UploadedId(1)))
    /\ m[rev] = Ref("hda", Some(UploadedId(2)))

\* C13: in a paired run with a tool that is not special-cased, the forward key
\* is the explicit forward key if one was captured, else the inferred left
\* slot, and the reverse key likewise; when both keys are found, every
\* submitted mapping has exactly two entries, the forward key referring
\* directly to fastq1's dataset and the reverse key to fastq2's, and no
\* collection is created.
C13_PairedKeysTwoEntries ==
    (Paired(args) /\ General /\ pc # "build" /\ Truthy(FwdKey) /\ Truthy(RevKey)) =>
        /\ collections = <<>> /\ CollectionCalls = {}
        /\ \A i \in RunCalls : TwoEntries(Submitted(i), FwdKey[1], RevKey[1])

\* C13 where the forward and the reverse key are two different names; the
\* run is submitted exactly when both file names were resolved
C13_TwoEntriesWhenDistinct ==
    (/\ Paired(args) /\ General /\ pc # "build"
     /\ Truthy(FwdKey) /\ Truthy(RevKey) /\ FwdKey # RevKey) =>
        /\ collections = <<>> /\ CollectionCalls = {}
        /\ \A i \in RunCalls : TwoEntries(Submitted(i), FwdKey[1], RevKey[1])
        /\ IF AllResolved THEN pc = "run" \/ Cardinality(RunCalls) = 1
           ELSE pc = "exit" /\ RunCalls = {}

-----------------------------------------------------------------------------
(* Properties of main: the single-end run without a single slot *)

IsCollection(inp) == inp.type = "data_collection"

\* a collection-typed input whose name or label mentions a word of the list
IsMentioning(inp) ==
    LET text == lower(InpName(inp)) \o " " \o lower(InpLabel(inp))
    IN  IsCollection(inp) /\ \E w \in {"read", "fastq", "sequence", "rna"} : In(w, text)

IsDataTyped(inp) == inp.type \in {"data", "data_input"}

Names(q, S) == {InpName(q[i]) : i \in S}

\* the one collection created is a list of fastq1's dataset alone, and the
\* one mapping submitted refers to it under one of the names
WrappedUnder(names) ==
    /\ Len(collections) = 1 /\ Cardinality(CollectionCalls) = 1
    /\ collections[1].desc.elements = << Element(args.fastq1, Some(UploadedId(1))) >>
    /\ pc = "run" \/ Cardinality(RunCalls) = 1
    /\ \A i \in RunCalls :
          /\ \A j \in CollectionCalls : j < i
          /\ \E n \in names :
                Submitted(i) = Put(EmptyMap, n, Ref("hdca", Some(collections[1].id)))

\* without a collection: the first data-typed input refers directly to
\* fastq1's dataset, or the program exits when there is none
DirectOrExit(q) ==
    LET data == Matching(q, IsDataTyped)
    IN  /\ collections = <<>> /\ CollectionCalls = {}
        /\ IF data = {} THEN pc = "exit" /\ RunCalls = {}
           ELSE /\ pc = "run" \/ Cardinality(RunCalls) = 1
                /\ \A i \in RunCalls :
                      Submitted(i) = Put(EmptyMap, InpName(q[Min(data)]),
                                         Ref("hda", Some(UploadedId(1))))

\* a single-end run with a tool that is not special-cased whose schema gave
\* neither an explicit nor an inferred single slot, after the inputs were built
NoSingleSlot ==
    /\ ~Paired(args) /\ General /\ pc # "build"
    /\ ~Truthy(read_slots.explicit_single) /\ ~Truthy(read_slots.single)

\* C14: in such a run, the dataset is wrapped in a new one-element collection
\* referred to under a collection-typed input that mentions read, fastq,
\* sequence or rna whenever the schema tree has one anywhere, under another
\* collection-typed input only when it has none that mentions them; only a
\* schema without any collection-typed input makes the run fall back to the
\* first data-typed input, and exit when there is none.
C14_MentioningCollectionPreferred ==
    NoSingleSlot =>
        LET q == Preorder(tool_info)
            mentioning == Matching(q, IsMentioning)
            colls == Matching(q, IsCollection)
        IN  IF mentioning # {} THEN WrappedUnder(Names(q, mentioning))
            ELSE IF colls # {} THEN WrappedUnder(Names(q, colls))
            ELSE DirectOrExit(q)

\* C14 without the preference: some collection-typed input is used when the
\* schema has one, the first data-typed input or the exit otherwise
C14_SomeCollectionElseData ==
    NoSingleSlot =>
        LET q == Preorder(tool_info)
            colls == Matching(q, IsCollection)
        IN  IF colls # {} THEN WrappedUnder(Names(q, colls)) ELSE DirectOrExit(q)

-----------------------------------------------------------------------------
(* Properties of the polling loops: termination and the deadline *)

\* the success condition of the loop on a listing
Success(listing) ==
    IF loop.fn = "wait_for_history_ready" THEN Settled(listing)
    ELSE \E i \in 1..Len(listing) : Accepted(listing[i])

\* what one iteration does: it reads one listing; it returns exactly when the
\* listing meets the success condition; it raises exactly when it does not
\* and the time elapsed since the entry exceeds the timeout; else it sleeps
\* for the poll interval
OneIteration ==
    LET listing == loop'.contents
        elapsed == IF loop'.status = "running"
                   THEN (now' - loop.poll_interval) - loop.start
                   ELSE now' - loop.start
    IN  /\ loop'.polls = loop.polls + 1
        /\ listing = history
        /\ loop'.status = "returned" <=> Success(listing)
        /\ loop'.status = "raised" <=> (~Success(listing) /\ elapsed > loop.timeout)
        /\ loop'.status = "running" <=> (~Success(listing) /\ elapsed <= loop.timeout)
        /\ loop'.status = "running" => now' > now

\* C15: each call of either loop eventually returns or raises the timeout;
\* every step that changes the loop is one iteration, which returns on the
\* success condition, raises when the condition is not met and the elapsed
\* time exceeds the timeout, and sleeps otherwise, the clock advancing; a
\* loop that has ended stays ended, and a sleeping loop has read at most
\* timeout / poll_interval + 1 listings.
C15_PollingTerminates ==
    /\ <>(loop.status \in {"returned", "raised"})
    /\ [][loop' # loop => (loop.status = "running" /\ OneIteration)]_vars
    /\ [](loop.status = "running" => loop.polls <= (loop.timeout \div loop.poll_interval) + 1)

\* a call that slept twice and raised at its third listing
C15_Witness ==
    /\ loop.status = "raised"
    /\ loop.polls = 3
    /\ loop.timeout = 5
    /\ now - loop.start > loop.timeout

-----------------------------------------------------------------------------
(* Properties of main: timeouts after the run, resolution, download, order *)

ShowHistoryCalls == {i \in 1..Len(calls) : calls[i].op = "show_history"}

\* the history was listed for the log as the last remote operation
ContentsLogged == calls # <<>> /\ calls[Len(calls)].op = "show_history"

\* a polling loop started after the run was submitted has raised its timeout
TimedOutAfterRun == RunCalls # {} /\ loop.status = "raised"

\* C16 as stated: after a run was submitted, a timeout of the settle wait or
\* of the output wait ends the program by an exit that follows the logging of
\* the history contents, and nothing is downloaded.
C16_TimeoutLogsContents ==
    (TimedOutAfterRun /\ Ended) =>
        pc = "exit" /\ ContentsLogged /\ DownloadCalls = {}

\* C16 amended: after a run was submitted, a timeout of the output wait of
\* the assembler path is caught: the history is listed once more for the log
\* and the program exits; a timeout of the settle wait that follows the
\* submission is not caught: the program ends by the TimeoutError, and the
\* history is not listed for the log; in both cases nothing is downloaded.
C16_OnlyOutputTimeoutLogged ==
    TimedOutAfterRun =>
        /\ DownloadCalls = {}
        /\ pc # "done"
        /\ Ended =>
              IF loop.fn = "poll_history_for_dataset_with_ext"
              THEN pc = "exit" /\ ContentsLogged /\ Cardinality(ShowHistoryCalls) = 1
              ELSE pc = "TimeoutError" /\ ShowHistoryCalls = {}

\* the output wait timed out after the history had settled, and the program
\* exited after the listing
C16_Witness ==
    /\ TimedOutAfterRun
    /\ loop.fn = "poll_history_for_dataset_with_ext"
    /\ pc = "exit"
    /\ ContentsLogged
    /\ DownloadCalls = {}

\* C17: in a paired run that reached the submission, each resolved file name
\* is resolved to the id of the dataset that its own upload created, so the
\* two files are resolved to two different datasets, whatever the two
\* basenames are (one contained in the other, or equal).
C17_ResolvedToOwnUpload ==
    (Paired(args) /\ RunCalls # {}) =>
        \A k \in 1..Len(Files(args)) :
            Files(args)[k] \in DOMAIN name_to_dsid =>
                name_to_dsid[Files(args)[k]] = UploadedId(k)

\* C17 for two basenames neither of which contains the other
C17_OwnUploadWhenUnrelated ==
    (/\ Paired(args) /\ RunCalls # {}
     /\ ~In(args.fastq1, args.fastq2[1]) /\ ~In(args.fastq2[1], args.fastq1)) =>
        \A k \in 1..Len(Files(args)) :
            Files(args)[k] \in DOMAIN name_to_dsid =>
                name_to_dsid[Files(args)[k]] = UploadedId(k)

\* the datasets of the history with the id that the i-th call, a download, names
Downloaded(i) == {j \in 1..Len(history) : Some(history[j].id) = calls[i].arg}

\* C18: when download is called, the dataset it names is a dataset of the
\* history in state ok that is not flagged deleted: no output in state error,
\* discarded, queued or running is downloaded as the result.
C18_DownloadsOkDataset ==
    pc = "done" =>
        \A i \in DownloadCalls :
            /\ Downloaded(i) # {}
            /\ \A j \in Downloaded(i) : history[j].state = "ok" /\ ~history[j].deleted

\* C18 without the state: the dataset downloaded is the first dataset of the
\* settled history with a FASTA extension or name, in whatever state the
\* settle wait accepts
C18_DownloadsFirstFasta ==
    pc = "done" =>
        \A i \in DownloadCalls :
            LET fasta == {j \in 1..Len(history) : HasExt(history[j], DefaultExts)}
            IN  /\ fasta # {}
                /\ Downloaded(i) = {Min(fasta)}
                /\ history[Min(fasta)].state \in TerminalStates

OpsOf(op) == {i \in 1..Len(calls) : calls[i].op = op}

UploadCalls == OpsOf("upload_file")

\* the operations that need the datasets of the uploads
ToolOps == {"get_tools", "show_tool", "create_dataset_collection", "run_tool",
            "download_dataset"}

\* the positions of main at which the program has ended without a result
Aborted == pc \in {"exit", "KeyError", "TimeoutError"}

\* the history is created first, once, and the uploads follow it at once,
\* one per file, fastq1 before fastq2
UploadsInOrder ==
    /\ calls # <<>> => calls[1].op = "create_history"
    /\ Cardinality(OpsOf("create_history")) <= 1
    /\ Cardinality(UploadCalls) <= Len(Files(args))
    /\ \A k \in 1..Cardinality(UploadCalls) :
          calls[k + 1] = Call("upload_file", Some(Files(args)[k]))

\* a tool operation is called only with every file uploaded and with main
\* past the settle wait of the uploads
ToolOpsAfterSettle ==
    (\E i \in 1..Len(calls) : calls[i].op \in ToolOps) =>
        /\ Cardinality(UploadCalls) = Len(Files(args))
        /\ pc \notin {"create_history", "upload", "wait_uploads"}

\* main gets past the settle wait of the uploads only when the wait returned
SettleReturned ==
    (pc = "wait_uploads" /\ pc' \notin {"wait_uploads", "TimeoutError"}) =>
        /\ loop.fn = "wait_for_history_ready"
        /\ loop.status = "returned"
        /\ calls' = calls

\* at most one run and one download; the download follows the run, and is
\* made when the output wait returned a dataset, which it names
RunThenDownload ==
    /\ Cardinality(RunCalls) <= 1
    /\ Cardinality(DownloadCalls) <= 1
    /\ \A i \in DownloadCalls :
          /\ \E j \in RunCalls : j < i
          /\ loop.fn = "poll_history_for_dataset_with_ext"
          /\ loop.status = "returned"
          /\ calls[i].arg = Some(ret.value.id)

\* C19: the history is created once and first; the uploads follow, one per
\* supplied file, fastq1 before fastq2; the tool listing, the collection
\* creation, the run and the download are called only after the settle wait
\* of the uploads returned; the run is called at most once; the download is
\* called at most once, after the run and after the output wait returned a
\* dataset; once the program has aborted no operation is called any more;
\* the history is never deleted.
C19_FixedOrderOfOperations ==
    /\ [](UploadsInOrder /\ ToolOpsAfterSettle /\ RunThenDownload)
    /\ [](OpsOf("delete_history") = {})
    /\ [][SettleReturned]_vars
    /\ [][Aborted => calls' = calls]_vars

\* a paired run that created a collection, ran the tool and downloaded
C19_Witness ==
    /\ pc = "done"
    /\ Cardinality(UploadCalls) = 2
    /\ CollectionCalls # {}
    /\ RunCalls # {}
    /\ DownloadCalls # {}

-----------------------------------------------------------------------------
(* Properties of the polling loops: the success condition comes first *)

\* the time elapsed since the entry of the loop
Elapsed == now - loop.start

\* the iteration of this step read a listing that meets the success condition
ObservedSuccess == loop'.polls = loop.polls + 1 /\ Success(loop'.contents)

\* C20: in both loops a call that has ended has listed the history at least
\* once, also when its timeout is zero; an iteration whose listing meets the
\* success condition returns, whatever time has elapsed; the timeout is
\* raised only by an iteration whose listing, the history as it then was,
\* does not meet the success condition.
C20_SuccessBeforeDeadline ==
    /\ [](loop.status \in {"returned", "raised"} => loop.polls >= 1)
    /\ [][(loop.status = "running" /\ ObservedSuccess) =>
             (loop'.status = "returned" /\ ret'.kind = "return")]_vars
    /\ [][(loop.status = "running" /\ loop'.status = "raised") =>
             (/\ loop'.polls = loop.polls + 1
              /\ loop'.contents = history
              /\ ~Success(history))]_vars

\* a call returned at a later poll, the time elapsed exceeding its timeout
C20_Witness ==
    /\ loop.status = "returned"
    /\ ret.kind = "return"
    /\ loop.polls >= 2
    /\ Elapsed > loop.timeout

====
